---- MODULE Spec2Model ----
(***************************************************************************)
(* Model of summarize_sessions.py: one pass over the JSON session logs of  *)
(* logs/sessions, a normalised record per file, per-model and per-         *)
(* condition counters, then the CSV file and the console report.           *)
(*                                                                         *)
(* JSON values are tagged records (t is the JSON type); a key that is      *)
(* missing from an object is the value AbsentV.  Numbers are integers;     *)
(* the float backtrack rate is kept as an exact fraction num/den.          *)
(***************************************************************************)
EXTENDS Integers, Sequences, FiniteSets, TLC

----------------------------------------------------------------------------
(* Bounds *)

MaxVal == 1
MaxFiles == 2

----------------------------------------------------------------------------
(* JSON values *)

AbsentV == [t |-> "absent", i |-> 0, s |-> "", b |-> FALSE]
NullV == [t |-> "null", i |-> 0, s |-> "", b |-> FALSE]
ListV == [t |-> "list", i |-> 0, s |-> "", b |-> FALSE]
IntV(n) == [t |-> "int", i |-> n, s |-> "", b |-> FALSE]
StrV(x) == [t |-> "str", i |-> 0, s |-> x, b |-> FALSE]
BoolV(x) == [t |-> "bool", i |-> 0, s |-> "", b |-> x]

\* Python numbers: int, and bool as 0/1.  Everything else raises a
\* TypeError in a comparison with 0, a division or an addition to an int.
IsNum(v) == v.t \in {"int", "bool"}

NumVal(v) == IF v.t = "bool" THEN (IF v.b THEN 1 ELSE 0) ELSE v.i

\* Python truthiness, as used by `1 if session["won"] else 0`.
Truthy(v) ==
  CASE v.t = "bool" -> v.b
    [] v.t = "int" -> v.i # 0
    [] v.t = "str" -> v.s # ""
    [] v.t = "list" -> TRUE
    [] OTHER -> FALSE

\* Python `v == True` / `v == False`: a bool, or the int 1 / 0.
PyEqBool(v, x) ==
  \/ v.t = "bool" /\ v.b = x
  \/ v.t = "int" /\ v.i = (IF x THEN 1 ELSE 0)

\* dict keys must be hashable: a list is not.
Hashable(v) == v.t # "list"

----------------------------------------------------------------------------
(* The JSON document of a file.  Each sub-object is absent, an object     *)
(* ("obj") or a JSON value that is not an object ("str").                 *)

NoModel == [t |-> "absent", name |-> AbsentV]
NoSettings == [t |-> "absent", showGoalCoordinates |-> AbsentV]
NoOutcome ==
  [t |-> "absent", won |-> AbsentV, stoppedByUser |-> AbsentV,
   reachedMaxMoves |-> AbsentV, tooManyRevisits |-> AbsentV,
   errorOccurred |-> AbsentV]
NoMetrics ==
  [t |-> "absent", totalMoves |-> AbsentV, successfulMoves |-> AbsentV,
   wallCollisions |-> AbsentV, uniquePositionsVisited |-> AbsentV,
   backtrackCount |-> AbsentV]
NoTokens == [t |-> "absent", totalTokens |-> AbsentV]
NoCost == [t |-> "absent", totalCostUsd |-> AbsentV]

EmptyData ==
  [model |-> NoModel, settings |-> NoSettings, outcome |-> NoOutcome,
   metrics |-> NoMetrics, tokenUsage |-> NoTokens, cost |-> NoCost]

\* A file: valid = the text is JSON, isobj = the top-level value is an object.
EmptyObj == [valid |-> TRUE, isobj |-> TRUE, data |-> EmptyData]
BadJson == [valid |-> FALSE, isobj |-> FALSE, data |-> EmptyData]
ArrayTop == [valid |-> TRUE, isobj |-> FALSE, data |-> EmptyData]

MkFile(model, goal, won, tm, bc, wc, cost) ==
  [valid |-> TRUE, isobj |-> TRUE,
   data |->
     [model |-> [t |-> "obj", name |-> model],
      settings |-> [t |-> "obj", showGoalCoordinates |-> goal],
      outcome |-> [NoOutcome EXCEPT !.t = "obj", !.won = won],
      metrics |-> [NoMetrics EXCEPT !.t = "obj", !.totalMoves = tm,
                                    !.backtrackCount = bc,
                                    !.wallCollisions = wc],
      tokenUsage |-> NoTokens,
      cost |-> [t |-> "obj", totalCostUsd |-> cost]]]

Vals == (-1)..MaxVal

NumFiles ==
  {MkFile(StrV("A"), BoolV(TRUE), BoolV(TRUE), IntV(m), IntV(k), IntV(1), IntV(0)) :
     m \in Vals, k \in Vals}

CondFiles ==
  {MkFile(StrV("B"), g, BoolV(w), IntV(1), IntV(0), IntV(0), AbsentV) :
     g \in {BoolV(TRUE), BoolV(FALSE), AbsentV}, w \in BOOLEAN}

BacktracksStr ==
  MkFile(StrV("A"), AbsentV, BoolV(TRUE), AbsentV, StrV("x"), IntV(0), IntV(0))
CollisionsStr ==
  MkFile(StrV("A"), BoolV(FALSE), BoolV(TRUE), IntV(1), IntV(1), StrV("x"), IntV(0))
MovesStr ==
  MkFile(StrV("A"), BoolV(TRUE), BoolV(TRUE), StrV("x"), IntV(0), IntV(0), IntV(0))
CostStr ==
  MkFile(StrV("A"), BoolV(TRUE), BoolV(FALSE), IntV(1), IntV(0), IntV(0), StrV("free"))
NullModel ==
  MkFile(NullV, BoolV(TRUE), BoolV(FALSE), IntV(1), IntV(0), IntV(0), IntV(0))
ListModel ==
  MkFile(ListV, BoolV(TRUE), BoolV(TRUE), IntV(1), IntV(0), IntV(0), IntV(0))
SettingsStr ==
  [EmptyObj EXCEPT !.data.settings.t = "str"]

WellFormed ==
  MkFile(StrV("A"), BoolV(TRUE), BoolV(TRUE), IntV(1), IntV(1), IntV(1), IntV(0))

Contents ==
  {EmptyObj, BadJson, ArrayTop, BacktracksStr, CollisionsStr, MovesStr,
   CostStr, NullModel, ListModel, SettingsStr}
  \cup NumFiles \cup CondFiles

\* Content of the files the scan leaves out.
AuxContents == {WellFormed, BadJson}

----------------------------------------------------------------------------
(* File names: the name is Join(parts, "_") followed by ext.               *)

NameA == [parts |-> <<"2026-01-13", "021011", "A">>, ext |-> ".json"]
NameAApi == [parts |-> <<"2026-01-13", "021011", "A", "api">>, ext |-> ".json"]
NameATxt == [parts |-> <<"2026-01-13", "021011", "A", "notes">>, ext |-> ".txt"]
NameB == [parts |-> <<"2026-01-13", "021500", "123", "a3f0", "B">>, ext |-> ".json"]
NameNotes == [parts |-> <<"notes">>, ext |-> ".json"]

\* The names in the order of Python's sorted() ('.' < '_' < 'n').
AllNames == <<NameA, NameAApi, NameATxt, NameB, NameNotes>>

Names == {AllNames[i] : i \in 1..Len(AllNames)}

IsJsonName(n) == n.ext = ".json"

EndsWithApi(n) ==
  n.ext = ".json" /\ Len(n.parts) >= 2 /\ n.parts[Len(n.parts)] = "api"

SessionFileAnyJson(n) == IsJsonName(n)

\* glob("*.json") without the names that end in _api.json
SessionFile(n) == IsJsonName(n) /\ ~EndsWithApi(n)

SortedNames(S) == SelectSeq(AllNames, LAMBDA n : n \in S)

\* filename.split('_')[0:2] joined by '_', the whole name when there is no
\* '_' (the names of one part are shorter than 19 characters).
Timestamp(n) ==
  IF Len(n.parts) >= 3 THEN [parts |-> SubSeq(n.parts, 1, 2), ext |-> ""]
  ELSE n

----------------------------------------------------------------------------
(* Record normalizer *)

\* d.get(key, default) on a sub-object that is absent ({}) or an object.
SubGet(sub, key, default) ==
  IF sub.t = "obj" /\ sub[key].t # "absent" THEN sub[key] ELSE default

\* .get on a value that is not an object raises AttributeError.
SubsAreObjects(data) ==
  /\ data.model.t # "str"
  /\ data.settings.t # "str"
  /\ data.outcome.t # "str"
  /\ data.metrics.t # "str"
  /\ data.tokenUsage.t # "str"
  /\ data.cost.t # "str"

ZeroRate == [num |-> 0, den |-> 1]

BacktrackRateFraction(backtracks, total_moves) ==
  IF NumVal(total_moves) > 0
    THEN [num |-> NumVal(backtracks), den |-> NumVal(total_moves)]
    ELSE ZeroRate

\* backtracks / total_moves * 100 if total_moves > 0 else 0
BacktrackRate(backtracks, total_moves) ==
  IF NumVal(total_moves) > 0
    THEN [num |-> NumVal(backtracks) * 100, den |-> NumVal(total_moves)]
    ELSE ZeroRate

Session(n, data) ==
  LET tm == SubGet(data.metrics, "totalMoves", IntV(0))
      bc == SubGet(data.metrics, "backtrackCount", IntV(0))
  IN [timestamp |-> Timestamp(n),
      model |-> SubGet(data.model, "name", StrV("Unknown")),
      goal_coords_on |-> SubGet(data.settings, "showGoalCoordinates", StrV("unknown")),
      won |-> SubGet(data.outcome, "won", BoolV(FALSE)),
      stopped_by_user |-> SubGet(data.outcome, "stoppedByUser", BoolV(FALSE)),
      max_moves |-> SubGet(data.outcome, "reachedMaxMoves", BoolV(FALSE)),
      too_many_revisits |-> SubGet(data.outcome, "tooManyRevisits", BoolV(FALSE)),
      error |-> SubGet(data.outcome, "errorOccurred", BoolV(FALSE)),
      total_moves |-> tm,
      successful_moves |-> SubGet(data.metrics, "successfulMoves", IntV(0)),
      wall_collisions |-> SubGet(data.metrics, "wallCollisions", IntV(0)),
      unique_positions |-> SubGet(data.metrics, "uniquePositionsVisited", IntV(0)),
      backtracks |-> bc,
      total_tokens |-> SubGet(data.tokenUsage, "totalTokens", IntV(0)),
      cost_usd |-> SubGet(data.cost, "totalCostUsd", IntV(0)),
      backtrack_rate |-> BacktrackRate(bc, tm)]

\* An exception of lines 39-75: json.load fails, .get on a value that is not
\* an object, total_moves > 0 or backtracks / total_moves on a non-number.
NormalizeRaises(file) ==
  \/ ~file.valid
  \/ ~file.isobj
  \/ ~SubsAreObjects(file.data)
  \/ LET tm == SubGet(file.data.metrics, "totalMoves", IntV(0))
         bc == SubGet(file.data.metrics, "backtrackCount", IntV(0))
     IN \/ ~IsNum(tm)
        \/ NumVal(tm) > 0 /\ ~IsNum(bc)

----------------------------------------------------------------------------
(* Aggregator *)

ZeroStats == [runs |-> 0, wins |-> 0, moves |-> 0, backtracks |-> 0, collisions |-> 0]

NoStats == [m \in {} |-> ZeroStats]

\* defaultdict: reading a missing key inserts the default
Touch(ms, m) == [k \in DOMAIN ms \cup {m} |-> IF k \in DOMAIN ms THEN ms[k] ELSE ZeroStats]

Won01(s) == IF Truthy(s.won) THEN 1 ELSE 0

UpdateModelStatsAssign(ms, s) ==
  IF ~Hashable(s.model) THEN [ms |-> ms, raised |-> TRUE]
  ELSE
    LET m == s.model
        c1 == [ZeroStats EXCEPT !.runs = 1,
                                !.wins = Won01(s),
                                !.moves = NumVal(s.total_moves)]
        ms1 == [Touch(ms, m) EXCEPT ![m] = c1]
    IN IF ~IsNum(s.backtracks) THEN [ms |-> ms1, raised |-> TRUE]
       ELSE
         LET ms2 == [ms1 EXCEPT ![m].backtracks = NumVal(s.backtracks)]
         IN IF ~IsNum(s.wall_collisions) THEN [ms |-> ms2, raised |-> TRUE]
            ELSE [ms |-> [ms2 EXCEPT ![m].collisions = NumVal(s.wall_collisions)],
                  raised |-> FALSE]

\* Lines 80-85, statement by statement: the statements before the one that
\* raises have taken effect.
UpdateModelStats(ms, s) ==
  IF ~Hashable(s.model) THEN [ms |-> ms, raised |-> TRUE]
  ELSE
    LET m == s.model
        c0 == Touch(ms, m)[m]
        c1 == [c0 EXCEPT !.runs = @ + 1,
                         !.wins = @ + Won01(s),
                         !.moves = @ + NumVal(s.total_moves)]
        ms1 == [Touch(ms, m) EXCEPT ![m] = c1]
    IN IF ~IsNum(s.backtracks) THEN [ms |-> ms1, raised |-> TRUE]
       ELSE
         LET ms2 == [ms1 EXCEPT ![m].backtracks = @ + NumVal(s.backtracks)]
         IN IF ~IsNum(s.wall_collisions) THEN [ms |-> ms2, raised |-> TRUE]
            ELSE [ms |-> [ms2 EXCEPT ![m].collisions = @ + NumVal(s.wall_collisions)],
                  raised |-> FALSE]

ZeroGoal == [runs |-> 0, wins |-> 0]

BucketOnOrOff(s) ==
  IF PyEqBool(s.goal_coords_on, TRUE) THEN "on" ELSE "off"

Bucket(s) ==
  IF PyEqBool(s.goal_coords_on, TRUE) THEN "on"
  ELSE IF PyEqBool(s.goal_coords_on, FALSE) THEN "off"
  ELSE "unknown"

\* Lines 88-96 on the three buckets g = [on, off, unknown]
UpdateGoal(g, s) ==
  [g EXCEPT ![Bucket(s)] = [runs |-> @.runs + 1, wins |-> @.wins + Won01(s)]]

\* The whole loop body, lines 38-99, on the aggregates
\* a = [all_sessions, model_stats, goal]; err = the except branch ran.
LoopBody(a, n, file) ==
  IF NormalizeRaises(file) THEN [a |-> a, err |-> TRUE]
  ELSE
    LET s == Session(n, file.data)
        a1 == [a EXCEPT !.all_sessions = Append(@, s)]
        r == UpdateModelStats(a.model_stats, s)
        a2 == [a1 EXCEPT !.model_stats = r.ms]
    IN IF r.raised THEN [a |-> a2, err |-> TRUE]
       ELSE [a |-> [a2 EXCEPT !.goal = UpdateGoal(@, s)], err |-> FALSE]

EmptyAgg ==
  [all_sessions |-> <<>>, model_stats |-> NoStats,
   goal |-> [on |-> ZeroGoal, off |-> ZeroGoal, unknown |-> ZeroGoal]]

----------------------------------------------------------------------------
(* CSV and console reporters *)

\* "{:.1f}": the rate in tenths, rounded half to even
Tenths(r) ==
  LET q == 10 * r.num
      fl == q \div r.den
      rem == q % r.den
  IN IF 2 * rem < r.den THEN fl
     ELSE IF 2 * rem > r.den THEN fl + 1
     ELSE IF fl % 2 = 0 THEN fl ELSE fl + 1

\* "{:.4f}" raises on a value that is not a number
RowRaises(s) == ~IsNum(s.cost_usd)

Row(s) ==
  [Timestamp |-> s.timestamp, Model |-> s.model, GoalCoordsOn |-> s.goal_coords_on,
   Won |-> s.won, StoppedByUser |-> s.stopped_by_user, MaxMoves |-> s.max_moves,
   TooManyRevisits |-> s.too_many_revisits, Error |-> s.error,
   TotalMoves |-> s.total_moves, SuccessfulMoves |-> s.successful_moves,
   WallCollisions |-> s.wall_collisions, UniquePositions |-> s.unique_positions,
   Backtracks |-> s.backtracks, BacktrackRate |-> Tenths(s.backtrack_rate),
   TotalTokens |-> s.total_tokens, CostUSD |-> NumVal(s.cost_usd)]

\* The sessions written before the first one whose row raises
RECURSIVE RowsWritten(_)
RowsWritten(ss) ==
  IF ss = <<>> \/ RowRaises(Head(ss)) THEN <<>>
  ELSE <<Row(Head(ss))>> \o RowsWritten(Tail(ss))

CsvRaises(ss) == \E i \in 1..Len(ss) : RowRaises(ss[i])

\* sum(1 for s in all_sessions if s["won"])
RECURSIVE TotalWins(_)
TotalWins(ss) ==
  IF ss = <<>> THEN 0 ELSE Won01(Head(ss)) + TotalWins(Tail(ss))

\* "{model:<30}" raises on None
ReportRaises(ms) == \E m \in DOMAIN ms : m.t \notin {"str", "int", "bool"}

Msg(kind, file, n, w) == [kind |-> kind, file |-> file, n |-> n, w |-> w]

NoName == [parts |-> <<>>, ext |-> ""]

----------------------------------------------------------------------------
(* State *)

VARIABLES
  pc,             \* position in main
  dir_exists,     \* logs/sessions exists
  dir,            \* the files of logs/sessions: name -> content
  csv,            \* session_summary.csv on disk
  session_files,  \* the list of line 23
  idx,            \* number of files the loop has taken
  agg,            \* all_sessions, model_stats and the goal buckets
  out,            \* console lines
  opened          \* the files opened for reading

vars == <<pc, dir_exists, dir, csv, session_files, idx, agg, out, opened>>

all_sessions == agg.all_sessions
model_stats == agg.model_stats
goal_on == agg.goal.on
goal_off == agg.goal.off
goal_unknown == agg.goal.unknown

ContentsOf(n) == IF SessionFile(n) THEN Contents ELSE AuxContents

Directories ==
  UNION {[S -> Contents \cup AuxContents] :
           S \in {T \in SUBSET Names : Cardinality(T) <= MaxFiles}}

\* The CSV of an earlier run (OldCsv) is on disk whenever there are logs.
NoCsv == [exists |-> FALSE, written |-> FALSE, rows |-> <<>>]
OldCsv == [exists |-> TRUE, written |-> FALSE, rows |-> <<>>]

Init ==
  /\ pc = "start"
  /\ dir_exists \in BOOLEAN
  /\ dir \in Directories
  /\ \A n \in DOMAIN dir : dir[n] \in ContentsOf(n)
  /\ ~dir_exists => DOMAIN dir = {}
  /\ csv \in (IF DOMAIN dir = {} THEN {NoCsv, OldCsv} ELSE {OldCsv})
  /\ session_files = <<>>
  /\ idx = 0
  /\ agg = EmptyAgg
  /\ out = <<>>
  /\ opened = <<>>


----------------------------------------------------------------------------
(* Actions *)

DirMissingFallsThrough ==
  /\ pc = "start"
  /\ ~dir_exists
  /\ pc' = "loop"
  /\ out' = Append(out, Msg("notfound", NoName, 0, 0))
  /\ UNCHANGED <<dir_exists, dir, csv, session_files, idx, agg, opened>>

\* Lines 18-20
DirMissing ==
  /\ pc = "start"
  /\ ~dir_exists
  /\ pc' = "done"
  /\ out' = Append(out, Msg("notfound", NoName, 0, 0))
  /\ UNCHANGED <<dir_exists, dir, csv, session_files, idx, agg, opened>>

\* Lines 23-35
Scan ==
  /\ pc = "start"
  /\ dir_exists
  /\ session_files' = SortedNames({n \in DOMAIN dir : SessionFile(n)})
  /\ out' = Append(out, Msg("found", NoName, Len(session_files'), 0))
  /\ idx' = 0
  /\ agg' = EmptyAgg
  /\ pc' = "loop"
  /\ UNCHANGED <<dir_exists, dir, csv, opened>>

\* Lines 37-99, one iteration
ProcessFile ==
  /\ pc = "loop"
  /\ idx < Len(session_files)
  /\ LET n == session_files[idx + 1]
         r == LoopBody(agg, n, dir[n])
     IN /\ opened' = Append(opened, n)
        /\ agg' = r.a
        /\ out' = IF r.err THEN Append(out, Msg("error", n, 0, 0)) ELSE out
  /\ idx' = idx + 1
  /\ UNCHANGED <<pc, dir_exists, dir, csv, session_files>>

\* Lines 101-108
WriteCSV ==
  /\ pc = "loop"
  /\ idx = Len(session_files)
  /\ csv' = [exists |-> TRUE, written |-> TRUE, rows |-> RowsWritten(all_sessions)]
  /\ IF CsvRaises(all_sessions)
       THEN pc' = "crashed" /\ out' = out
       ELSE pc' = "report" /\ out' = Append(out, Msg("csv", NoName, 0, 0))
  /\ UNCHANGED <<dir_exists, dir, session_files, idx, agg, opened>>

\* Lines 110-156
Report ==
  /\ pc = "report"
  /\ LET o1 == Append(out, Msg("summary", NoName, Len(all_sessions), TotalWins(all_sessions)))
     IN IF ReportRaises(model_stats)
          THEN pc' = "crashed" /\ out' = o1
          ELSE pc' = "done" /\ out' = Append(o1, Msg("models", NoName, Cardinality(DOMAIN model_stats), 0))
  /\ UNCHANGED <<dir_exists, dir, csv, session_files, idx, agg, opened>>

Next == DirMissing \/ Scan \/ ProcessFile \/ WriteCSV \/ Report

Spec == Init /\ [][Next]_vars

----------------------------------------------------------------------------
(* The same run with the files taken in an arbitrary order *)

Perms(S) ==
  {f \in [1..Cardinality(S) -> S] : \A i, j \in 1..Cardinality(S) : f[i] = f[j] => i = j}

\* Lines 23-35 with the sort replaced by an arbitrary order of the same files
ScanAnyOrder ==
  /\ pc = "start"
  /\ dir_exists
  /\ session_files' \in Perms({n \in DOMAIN dir : SessionFile(n)})
  /\ out' = Append(out, Msg("found", NoName, Len(session_files'), 0))
  /\ idx' = 0
  /\ agg' = EmptyAgg
  /\ pc' = "loop"
  /\ UNCHANGED <<dir_exists, dir, csv, opened>>

NextOrder == DirMissing \/ ScanAnyOrder \/ ProcessFile \/ WriteCSV \/ Report

SpecOrder == Init /\ [][NextOrder]_vars

\* The aggregates after the loop has taken the files of order, one by one
RECURSIVE Aggregate(_, _)
Aggregate(order, d) ==
  IF order = <<>> THEN EmptyAgg
  ELSE LET k == Len(order)
       IN LoopBody(Aggregate(SubSeq(order, 1, k - 1), d), order[k], d[order[k]]).a

----------------------------------------------------------------------------
(* Properties *)

ErrorCount == Len(SelectSeq(out, LAMBDA m : m.kind = "error"))

LoopRunning == pc = "loop" /\ idx < Len(session_files)

CurrentFile == dir[session_files[idx + 1]]

ErrorPrinted == Len(out') = Len(out) + 1 /\ out'[Len(out')].kind = "error"

\* C1: after a run that reaches its end, the CSV has one data row per
\* scanned file that was not reported with 'Error parsing'.
C1_RowCount ==
  (pc = "done" /\ dir_exists) =>
     /\ csv.written
     /\ Len(csv.rows) = Len(session_files) - ErrorCount

\* C2: an iteration that reports 'Error parsing' leaves the session list,
\* the per-model counters and the goal buckets as they were, and the loop
\* goes on to the next file.
C2_FailedFileExcluded ==
  [][(LoopRunning /\ ErrorPrinted) =>
        (agg' = agg /\ pc' = "loop" /\ idx' = idx + 1)]_vars

\* C3: the run never aborts with an uncaught exception.
C3_NeverAborts == pc # "crashed"

\* C4: after the loop, the per-model and per-condition counters are those
\* of the run that takes the same files in sorted order, whatever the order
\* the files were taken in.
C4_OrderIndependent ==
  (pc \in {"loop", "report", "done", "crashed"} /\ idx = Len(session_files)) =>
     LET S == {session_files[i] : i \in 1..Len(session_files)}
         ref == Aggregate(SortedNames(S), dir)
     IN /\ model_stats = ref.model_stats
        /\ agg.goal = ref.goal

C4_Witness ==
  /\ pc = "done"
  /\ Len(session_files) >= 2
  /\ session_files # SortedNames({session_files[i] : i \in 1..Len(session_files)})
  /\ Len(all_sessions) >= 2
  /\ \E m \in DOMAIN model_stats : model_stats[m].runs >= 2

\* C5: a file that is the empty JSON object is not skipped: its record has
\* every number 0, every outcome flag false, the flag "unknown", the model
\* "Unknown" and the rate 0, and it is counted under "Unknown" and in the
\* unknown bucket.
C5_EmptyObjectDefaults ==
  [][(LoopRunning /\ CurrentFile = EmptyObj) =>
       /\ out' = out
       /\ Len(all_sessions') = Len(all_sessions) + 1
       /\ LET s == all_sessions'[Len(all_sessions')]
              u == StrV("Unknown")
          IN /\ s.model = u
             /\ s.goal_coords_on = StrV("unknown")
             /\ \A f \in {"won", "stopped_by_user", "max_moves", "too_many_revisits", "error"} :
                  s[f] = BoolV(FALSE)
             /\ \A f \in {"total_moves", "successful_moves", "wall_collisions",
                          "unique_positions", "backtracks", "total_tokens", "cost_usd"} :
                  s[f] = IntV(0)
             /\ s.backtrack_rate.num = 0
             /\ u \in DOMAIN model_stats'
             /\ model_stats'[u].runs =
                  (IF u \in DOMAIN model_stats THEN model_stats[u].runs ELSE 0) + 1
             /\ model_stats'[u].wins =
                  (IF u \in DOMAIN model_stats THEN model_stats[u].wins ELSE 0)
       /\ goal_unknown'.runs = goal_unknown.runs + 1
       /\ goal_unknown'.wins = goal_unknown.wins
       /\ goal_on' = goal_on
       /\ goal_off' = goal_off]_vars

C5_Witness ==
  /\ pc = "done"
  /\ \E i \in 1..Len(session_files) : dir[session_files[i]] = EmptyObj
  /\ goal_unknown.runs >= 1

\* C6 as stated: the rate of every record is 0 when totalMoves is 0 and
\* 100 * backtracks / totalMoves for every other integer totalMoves.
C6_RateAnyMoves ==
  \A i \in 1..Len(all_sessions) :
    LET s == all_sessions[i]
        t == NumVal(s.total_moves)
    IN /\ t = 0 => s.backtrack_rate.num = 0
       /\ t # 0 => /\ IsNum(s.backtracks)
                   /\ s.backtrack_rate.num * t = 100 * NumVal(s.backtracks) * s.backtrack_rate.den

\* C6 amended: the rate of every record is 0 when totalMoves <= 0 and
\* 100 * backtracks / totalMoves when totalMoves > 0.
C6_RatePositiveMoves ==
  \A i \in 1..Len(all_sessions) :
    LET s == all_sessions[i]
        t == NumVal(s.total_moves)
    IN /\ IsNum(s.total_moves)
       /\ s.backtrack_rate.den > 0
       /\ t <= 0 => s.backtrack_rate.num = 0
       /\ t > 0 => /\ IsNum(s.backtracks)
                   /\ s.backtrack_rate.num * t = 100 * NumVal(s.backtracks) * s.backtrack_rate.den

C6_Witness ==
  /\ \E i \in 1..Len(all_sessions) :
       NumVal(all_sessions[i].total_moves) > 0 /\ NumVal(all_sessions[i].backtracks) > 0
  /\ \E i \in 1..Len(all_sessions) :
       NumVal(all_sessions[i].total_moves) < 0 /\ NumVal(all_sessions[i].backtracks) > 0

\* C7: a file whose name ends in _api.json is never listed, never opened,
\* never named in an error message, and the aggregates and the CSV are
\* those of the directory without it.
C7_ApiNeverScanned ==
  LET kept == {n \in DOMAIN dir : IsJsonName(n) /\ ~EndsWithApi(n)}
  IN /\ \A i \in 1..Len(session_files) : ~EndsWithApi(session_files[i])
     /\ \A i \in 1..Len(opened) : ~EndsWithApi(opened[i])
     /\ \A i \in 1..Len(out) : out[i].kind = "error" => ~EndsWithApi(out[i].file)
     /\ Len(all_sessions) <= Cardinality(kept)
     /\ Len(csv.rows) <= Cardinality(kept)
     /\ pc \in {"report", "done", "crashed"} => agg = Aggregate(SortedNames(kept), dir)

C7_Witness ==
  /\ pc = "done"
  /\ NameAApi \in DOMAIN dir
  /\ dir[NameAApi] = WellFormed
  /\ Len(opened) >= 1
  /\ Len(csv.rows) >= 1

\* C8: when the log directory does not exist the run prints the notice and
\* stops: no file is opened, the CSV file on disk is untouched and no
\* summary is printed.
C8_MissingDirectory ==
  [][~dir_exists =>
       /\ csv' = csv
       /\ opened' = <<>>
       /\ all_sessions' = <<>>
       /\ pc' \in {"start", "done"}
       /\ \A i \in 1..Len(out') : out'[i].kind = "notfound"
       /\ pc' = "done" => Len(out') = 1]_vars

C8_Witness == ~dir_exists /\ pc = "done" /\ csv = OldCsv /\ Len(out) = 1

\* C9: the runs of the three buckets add up to the number of records in
\* the session list and their wins to the reported total wins.
C9_BucketsPartition ==
  /\ goal_on.runs + goal_off.runs + goal_unknown.runs = Len(all_sessions)
  /\ goal_on.wins + goal_off.wins + goal_unknown.wins = TotalWins(all_sessions)

\* C10 as stated: no model key is removed and none of the five counters of
\* a model decreases, whatever integers the files carry.
C10_CountersMonotone ==
  [][\A m \in DOMAIN model_stats :
       /\ m \in DOMAIN model_stats'
       /\ \A c \in {"runs", "wins", "moves", "backtracks", "collisions"} :
            model_stats'[m][c] >= model_stats[m][c]]_vars

NonNegative(v) == IsNum(v) => NumVal(v) >= 0

FileKeepsMonotone(c) ==
  LoopRunning =>
    LET me == CurrentFile.data.metrics
    IN CASE c = "moves" -> NonNegative(SubGet(me, "totalMoves", IntV(0)))
         [] c = "backtracks" -> NonNegative(SubGet(me, "backtrackCount", IntV(0)))
         [] c = "collisions" -> NonNegative(SubGet(me, "wallCollisions", IntV(0)))
         [] OTHER -> TRUE

\* C10 amended: no model key is removed, runs and wins never decrease, and
\* moves, backtracks and collisions do not decrease over a file whose
\* totalMoves, backtrackCount and wallCollisions are not negative.
C10_MonotoneNonNegative ==
  [][\A m \in DOMAIN model_stats :
       /\ m \in DOMAIN model_stats'
       /\ \A c \in {"runs", "wins", "moves", "backtracks", "collisions"} :
            FileKeepsMonotone(c) => model_stats'[m][c] >= model_stats[m][c]]_vars

C10_Witness ==
  \E m \in DOMAIN model_stats : model_stats[m].runs >= 2 /\ model_stats[m].moves >= 1

====
